---- MODULE Spec2Model ----
(***************************************************************************)
(* A model of the backtracking sudoku solver of src/lang/rust/src/main.rs. *)
(* A grid is a function [0..8 -> [0..8 -> Int]], indexed as sud[r][c].     *)
(* A text line is a sequence of ASCII codes.                               *)
(***************************************************************************)
EXTENDS Integers, Sequences, FiniteSets, TLC

VARIABLES
    fs,           \* the file system: a function from paths to files (line sequences)
    paths,        \* sud_solves: the path arguments (args[1..])
    ip,           \* sud_solves: number of paths the for loop has taken
    first,        \* sud_solves: local `first`
    last_path,    \* sud_solves: local `last_path`
    sud,          \* sud_solves: local `sud`, the grid handed to sud_solve
    loads,        \* history: [idx, grid] of every sud_read call that returned
    runs,         \* history: [idx, grid] of every sud_solve call
    lines,        \* sud_read: the lines of the opened file
    line_num,     \* sud_read: local `line_num`
    sud_row,      \* sud_read: local `sud_row`
    rsud,         \* sud_read: local `sud`, the grid being filled
    sud_cp,       \* sud_solve: working copy
    fixed,        \* sud_solve: fixed mask
    row,          \* sud_solve: cursor row
    col,          \* sud_solve: cursor column
    found,        \* sud_solve: local `found`
    errors,       \* sud_solve: local `errors`
    iters,        \* history: iterations of the search loop run so far
    stderr,       \* messages written with eprintln!, in order
    panic,        \* <<>>, or <<[msg, line, text]>> once a panic! has ended the process
    printed,      \* grids given to sud_print, in order
    result,       \* value returned by the function under test
    exit_status,  \* <<>> while running, <<code>> once the process has ended
    pc            \* control position

vars == <<fs, paths, ip, first, last_path, sud, loads, runs, lines, line_num,
          sud_row, rsud, sud_cp, fixed, row, col, found, errors, iters,
          stderr, panic, printed, result, exit_status, pc>>

batchVars == <<fs, paths, ip, first, last_path, loads>>
readVars  == <<lines, line_num, sud_row, rsud>>
solveVars == <<sud_cp, fixed, row, col, found, errors, iters>>

\* ------------------------------------------------------------------------
\* Bounds of the checked inputs

MaxBlanks == 4      \* cells blanked in a complete grid
MaxPaths  == 2      \* path arguments of one batch
MaxIters  == 400    \* the history counter iters stops counting here

\* ------------------------------------------------------------------------
\* Grid utilities

Idx == 0..8

ZeroGrid == [r \in Idx |-> [c \in Idx |-> 0]]

\* Variant: a given 1 is not treated as fixed.
sud_get_fixed_gt1(s) == [r \in Idx |-> [c \in Idx |-> s[r][c] > 1]]

sud_get_fixed(s) == [r \in Idx |-> [c \in Idx |-> s[r][c] > 0]]

sud_is_solved(s) == ~(\E r \in Idx : \E c \in Idx : s[r][c] = 0)

\* Variant: the row scan is missing.
sud_cell_is_valid_norow(s, r0, c0) ==
    LET val       == s[r0][c0]
        row_start == 3 * (r0 \div 3)
        col_start == 3 * (c0 \div 3)
    IN  /\ ~(\E r \in Idx : r # r0 /\ s[r][c0] = val)
        /\ ~(\E r \in row_start..(row_start + 2) :
               \E c \in col_start..(col_start + 2) :
                  ~(r = r0 /\ c = c0) /\ s[r][c] = val)

\* The three scans of the code, each returning false at the first cell that
\* equals the literal value of the cell under test (0 included).
sud_cell_is_valid(s, r0, c0) ==
    LET val       == s[r0][c0]
        row_start == 3 * (r0 \div 3)
        col_start == 3 * (c0 \div 3)
    IN  /\ ~(\E c \in Idx : c # c0 /\ s[r0][c] = val)
        /\ ~(\E r \in Idx : r # r0 /\ s[r][c0] = val)
        /\ ~(\E r \in row_start..(row_start + 2) :
               \E c \in col_start..(col_start + 2) :
                  ~(r = r0 /\ c = c0) /\ s[r][c] = val)

\* Variant: blank cells are checked like placed digits.
sud_is_valid_allcells(s) ==
    ~(\E r \in Idx : \E c \in Idx : ~sud_cell_is_valid(s, r, c))

sud_is_valid(s) ==
    ~(\E r \in Idx : \E c \in Idx : s[r][c] > 0 /\ ~sud_cell_is_valid(s, r, c))

\* ------------------------------------------------------------------------
\* Cursor stepper.  The usize arguments are cast to isize on entry; the
\* start column -1_isize as usize casts back to -1, and is written -1 here.
\* loop[<<irow, icol>>] is the result of the loop entered with these values.

StepPos == ((-1)..9) \X ((-1)..9)

\* Variant: a backward step always reports the sentinel.
sud_step_nobacktrack(fx, r0, c0, inc) ==
    LET loop[p \in StepPos] ==
            LET icol0 == p[2] + inc
                icol  == IF icol0 > 8 THEN 0 ELSE icol0
                irow  == IF icol0 > 8 THEN p[1] + 1 ELSE p[1]
            IN  IF inc < 0 \/ irow > 8 THEN <<9, 9>>
                ELSE IF ~fx[irow][icol] THEN <<irow, icol>>
                ELSE loop[<<irow, icol>>]
    IN  loop[<<r0, c0>>]

\* Variant: stepping backward off the start wraps to the last row.
sud_step_wrap(fx, r0, c0, inc) ==
    LET loop[p \in StepPos] ==
            LET icol0 == p[2] + inc
                icol  == IF icol0 < 0 THEN 8 ELSE IF icol0 > 8 THEN 0 ELSE icol0
                irow0 == IF icol0 < 0 THEN p[1] - 1
                         ELSE IF icol0 > 8 THEN p[1] + 1 ELSE p[1]
                irow  == IF irow0 < 0 THEN 8 ELSE irow0
            IN  IF irow > 8 THEN <<9, 9>>
                ELSE IF ~fx[irow][icol] THEN <<irow, icol>>
                ELSE loop[<<irow, icol>>]
    IN  loop[<<r0, c0>>]

\* Variant: the fixed mask is not consulted.
sud_step_anycell(fx, r0, c0, inc) ==
    LET icol0 == c0 + inc
        icol  == IF icol0 < 0 THEN 8 ELSE IF icol0 > 8 THEN 0 ELSE icol0
        irow  == IF icol0 < 0 THEN r0 - 1 ELSE IF icol0 > 8 THEN r0 + 1 ELSE r0
    IN  IF irow < 0 \/ irow > 8 THEN <<9, 9>> ELSE <<irow, icol>>

sud_step(fx, r0, c0, inc) ==
    LET loop[p \in StepPos] ==
            LET icol0 == p[2] + inc
                icol  == IF icol0 < 0 THEN 8 ELSE IF icol0 > 8 THEN 0 ELSE icol0
                irow  == IF icol0 < 0 THEN p[1] - 1
                         ELSE IF icol0 > 8 THEN p[1] + 1 ELSE p[1]
            IN  IF irow < 0 \/ irow > 8 THEN <<9, 9>>
                ELSE IF ~fx[irow][icol] THEN <<irow, icol>>
                ELSE loop[<<irow, icol>>]
    IN  loop[<<r0, c0>>]

\* ------------------------------------------------------------------------
\* Input grids: a complete valid grid with up to MaxBlanks of the cells
\* BlankCands blanked and at most one of the cells OverCells overwritten.

SolRows == << <<5,3,4,6,7,8,9,1,2>>,
              <<6,7,2,1,9,5,3,4,8>>,
              <<1,9,8,3,4,2,5,6,7>>,
              <<8,5,9,7,6,1,4,2,3>>,
              <<4,2,6,8,5,3,7,9,1>>,
              <<7,1,3,9,2,4,8,5,6>>,
              <<9,6,1,5,3,7,2,8,4>>,
              <<2,8,7,4,1,9,6,3,5>>,
              <<3,4,5,2,8,6,1,7,9>> >>

Sol == [r \in Idx |-> [c \in Idx |-> SolRows[r + 1][c + 1]]]

BlankCands == {<<3,5>>, <<3,8>>, <<4,5>>, <<4,8>>, <<0,0>>, <<8,8>>}
OverCells  == {<<3,5>>, <<4,8>>}

Blanked(g, B) == [r \in Idx |-> [c \in Idx |-> IF <<r, c>> \in B THEN 0 ELSE g[r][c]]]

BlankedRows(g, k) == [r \in Idx |-> [c \in Idx |-> IF r < k THEN 0 ELSE g[r][c]]]

Transposed(g) == [r \in Idx |-> [c \in Idx |-> g[c][r]]]

Relabeled(g, k) == [r \in Idx |-> [c \in Idx |-> ((g[r][c] + k - 1) % 9) + 1]]

BlankSets == {B \in SUBSET BlankCands : Cardinality(B) <= MaxBlanks}

InputGrids ==
    {Blanked(Sol, B) : B \in BlankSets}
    \cup {[Blanked(Sol, B) EXCEPT ![p[1]][p[2]] = x] :
             B \in BlankSets, p \in OverCells, x \in 1..9}
    \cup {Relabeled(g, k) : g \in {Sol, Transposed(Sol)}, k \in 0..8}
    \cup {BlankedRows(Sol, 2), BlankedRows(Transposed(Sol), 1)}

\* ------------------------------------------------------------------------
\* sud_solve, lines 145-207

InitCommon ==
    /\ first = TRUE /\ last_path = ""
    /\ loads = <<>> /\ runs = <<>>
    /\ lines = <<>> /\ line_num = 0 /\ sud_row = 0 /\ rsud = ZeroGrid
    /\ sud_cp = ZeroGrid /\ fixed = sud_get_fixed(ZeroGrid)
    /\ row = 0 /\ col = 0 /\ found = FALSE /\ errors = <<>> /\ iters = 0
    /\ stderr = <<>> /\ panic = <<>> /\ printed = <<>> /\ result = FALSE
    /\ exit_status = <<>>

\* Lines 147-162: copy, mask, initial step, validity check of the givens.
SolveStart ==
    /\ pc = "solve_start"
    /\ LET fx == sud_get_fixed(sud)
           st == sud_step(fx, 0, -1, 1)
           r1 == IF ~sud_is_valid(sud) THEN 9 ELSE st[1]
       IN  /\ sud_cp' = sud
           /\ fixed' = fx
           /\ row' = r1
           /\ col' = st[2]
           /\ found' = (r1 = 9)
    /\ errors' = <<>>
    /\ iters' = 0
    /\ runs' = Append(runs, [idx |-> ip, grid |-> sud])
    /\ pc' = "solve_loop"
    /\ UNCHANGED <<batchVars, sud, readVars, stderr, panic, printed, result,
                   exit_status>>

\* Variant: the cell is not reset to 0 when the search steps backward.
SolveIter_noreset ==
    /\ pc = "solve_loop"
    /\ row # 9
    /\ LET val == sud_cp[row][col] + 1
       IN  IF val > 9
           THEN LET st == sud_step(fixed, row, col, -1)
                IN  /\ sud_cp' = sud_cp
                    /\ row' = st[1]
                    /\ col' = st[2]
                    /\ found' = found
           ELSE LET cp == [sud_cp EXCEPT ![row][col] = val]
                    st == sud_step(fixed, row, col, 1)
                IN  /\ sud_cp' = cp
                    /\ IF sud_cell_is_valid(cp, row, col)
                       THEN /\ row' = st[1]
                            /\ col' = st[2]
                            /\ found' = (found \/ st[1] = 9)
                       ELSE UNCHANGED <<row, col, found>>
    /\ iters' = IF iters < MaxIters THEN iters + 1 ELSE iters
    /\ UNCHANGED <<batchVars, runs, sud, readVars, fixed, errors, stderr,
                   panic, printed, result, exit_status, pc>>

\* Variant: the candidates of a cell are tried from 9 downward.
SolveIter_from9 ==
    /\ pc = "solve_loop"
    /\ row # 9
    /\ LET val == IF sud_cp[row][col] = 0 THEN 9 ELSE sud_cp[row][col] - 1
       IN  IF val < 1
           THEN LET st == sud_step(fixed, row, col, -1)
                IN  /\ sud_cp' = [sud_cp EXCEPT ![row][col] = 0]
                    /\ row' = st[1]
                    /\ col' = st[2]
                    /\ found' = found
           ELSE LET cp == [sud_cp EXCEPT ![row][col] = val]
                    st == sud_step(fixed, row, col, 1)
                IN  /\ sud_cp' = cp
                    /\ IF sud_cell_is_valid(cp, row, col)
                       THEN /\ row' = st[1]
                            /\ col' = st[2]
                            /\ found' = (found \/ st[1] = 9)
                       ELSE UNCHANGED <<row, col, found>>
    /\ iters' = IF iters < MaxIters THEN iters + 1 ELSE iters
    /\ UNCHANGED <<batchVars, runs, sud, readVars, fixed, errors, stderr,
                   panic, printed, result, exit_status, pc>>

\* Lines 163-185: one iteration of the search loop.
SolveIter ==
    /\ pc = "solve_loop"
    /\ row # 9
    /\ LET val == sud_cp[row][col] + 1
       IN  IF val > 9
           THEN LET st == sud_step(fixed, row, col, -1)
                IN  /\ sud_cp' = [sud_cp EXCEPT ![row][col] = 0]
                    /\ row' = st[1]
                    /\ col' = st[2]
                    /\ found' = found
           ELSE LET cp == [sud_cp EXCEPT ![row][col] = val]
                    st == sud_step(fixed, row, col, 1)
                IN  /\ sud_cp' = cp
                    /\ IF sud_cell_is_valid(cp, row, col)
                       THEN /\ row' = st[1]
                            /\ col' = st[2]
                            /\ found' = (found \/ st[1] = 9)
                       ELSE UNCHANGED <<row, col, found>>
    /\ iters' = IF iters < MaxIters THEN iters + 1 ELSE iters
    /\ UNCHANGED <<batchVars, runs, sud, readVars, fixed, errors, stderr,
                   panic, printed, result, exit_status, pc>>

MsgNoSolution == "Could not find a solution for:"
MsgInvalid    == "Found an invalid solution"

\* Lines 187-206: the final checks and the report.
SolveReport ==
    /\ pc = "solve_loop"
    /\ row = 9
    /\ LET e1 == IF found /\ ~sud_is_valid(sud_cp) THEN <<"not valid">> ELSE <<>>
           e2 == IF found /\ ~sud_is_solved(sud_cp) THEN <<"not solved">> ELSE <<>>
           es == e1 \o e2
       IN  /\ errors' = es
           /\ IF found
              THEN /\ stderr' = IF Len(es) > 0
                                THEN Append(stderr, MsgInvalid)
                                ELSE stderr
                   /\ printed' = Append(printed, sud_cp)
                   /\ IF Len(es) > 0
                      THEN exit_status' = <<1>> /\ pc' = "exit"
                      ELSE exit_status' = exit_status /\ pc' = "solve_ret"
              ELSE /\ stderr' = Append(stderr, MsgNoSolution)
                   /\ printed' = Append(printed, sud)
                   /\ exit_status' = <<1>>
                   /\ pc' = "exit"
    /\ UNCHANGED <<batchVars, runs, sud, readVars, sud_cp, fixed, row, col,
                   found, iters, panic, result>>

NoFiles == [p \in {} |-> <<>>]

InitSolve ==
    /\ InitCommon
    /\ fs = NoFiles
    /\ paths = <<>>
    /\ ip = 0
    /\ sud \in InputGrids
    /\ pc = "solve_start"

NextSolve == SolveStart \/ SolveIter \/ SolveReport

SpecSolve == InitSolve /\ [][NextSolve]_vars

FairSpecSolve == SpecSolve /\ WF_vars(NextSolve)

\* ------------------------------------------------------------------------
\* Text.  A line is a sequence of ASCII codes, as BufRead::lines yields it
\* (without the line terminator).

CharTab   == 9
CharSpace == 32
CharHash  == 35
CharDot   == 46
CharZero  == 48

\* The ASCII characters that str::trim removes.
WhiteSpace == {9, 10, 11, 12, 13, 32}

\* str::trim: drop leading and trailing white space.
Trim(l) ==
    LET keep == {i \in 1..Len(l) : l[i] \notin WhiteSpace}
    IN  IF keep = {} THEN <<>>
        ELSE SubSeq(l, CHOOSE i \in keep : \A j \in keep : i <= j,
                       CHOOSE i \in keep : \A j \in keep : i >= j)

\* replace(" ", ""): drop every space character, and only those.
RemoveSpaces(l) == SelectSeq(l, LAMBDA ch : ch # CharSpace)

\* replace(".", "0")
DotsToZeros(l) == [i \in 1..Len(l) |-> IF l[i] = CharDot THEN CharZero ELSE l[i]]

\* `c as i8`.  For the ASCII codes used here c as i8 - '0' as i8 stays within
\* i8, and the byte length of a line is its number of characters.
AsI8(n) == LET m == n % 256 IN IF m >= 128 THEN m - 256 ELSE m

\* Exit status of a process ended by panic!.
PanicStatus == 101

\* ------------------------------------------------------------------------
\* sud_read, lines 113-142

\* Lines 114-121: open the file.
ReadOpen ==
    /\ pc = "read_open"
    /\ IF paths[ip] \in DOMAIN fs
       THEN /\ lines' = fs[paths[ip]]
            /\ line_num' = 0
            /\ sud_row' = 0
            /\ rsud' = ZeroGrid
            /\ pc' = "read_loop"
            /\ UNCHANGED <<panic, exit_status>>
       ELSE /\ panic' = <<[msg |-> "Unable to open", line |-> 0, text |-> <<>>]>>
            /\ exit_status' = <<PanicStatus>>
            /\ pc' = "exit"
            /\ UNCHANGED readVars
    /\ UNCHANGED <<batchVars, runs, sud, solveVars, stderr, printed, result>>

\* Variant: the length error names the number of the data line.
ReadLine_countdata ==
    /\ pc = "read_loop"
    /\ line_num < Len(lines)
    /\ LET line_uw   == lines[line_num + 1]
           trim_line == RemoveSpaces(Trim(line_uw))
           digits    == DotsToZeros(trim_line)
       IN  /\ line_num' = line_num + 1
           /\ IF trim_line = <<>> \/ trim_line[1] = CharHash
              THEN UNCHANGED <<sud_row, rsud, panic, exit_status, pc>>
              ELSE IF Len(trim_line) # 9
              THEN /\ panic' = <<[msg |-> "does not have 9 digts",
                                 line |-> sud_row + 1, text |-> line_uw]>>
                   /\ exit_status' = <<PanicStatus>>
                   /\ pc' = "exit"
                   /\ UNCHANGED <<sud_row, rsud>>
              ELSE IF sud_row > 8
              THEN /\ panic' = <<[msg |-> "index out of bounds",
                                 line |-> line_num + 1, text |-> line_uw]>>
                   /\ exit_status' = <<PanicStatus>>
                   /\ pc' = "exit"
                   /\ UNCHANGED <<sud_row, rsud>>
              ELSE /\ rsud' = [rsud EXCEPT ![sud_row] =
                                 [i \in Idx |-> AsI8(digits[i + 1]) - AsI8(CharZero)]]
                   /\ sud_row' = sud_row + 1
                   /\ UNCHANGED <<panic, exit_status, pc>>
    /\ UNCHANGED <<batchVars, runs, sud, lines, solveVars, stderr, printed, result>>

\* Lines 122-140: the loop body for one line of the file.
ReadLine ==
    /\ pc = "read_loop"
    /\ line_num < Len(lines)
    /\ LET line_uw   == lines[line_num + 1]
           trim_line == RemoveSpaces(Trim(line_uw))
           digits    == DotsToZeros(trim_line)
       IN  /\ line_num' = line_num + 1
           /\ IF trim_line = <<>> \/ trim_line[1] = CharHash
              THEN UNCHANGED <<sud_row, rsud, panic, exit_status, pc>>
              ELSE IF Len(trim_line) # 9
              THEN /\ panic' = <<[msg |-> "does not have 9 digts",
                                 line |-> line_num + 1, text |-> line_uw]>>
                   /\ exit_status' = <<PanicStatus>>
                   /\ pc' = "exit"
                   /\ UNCHANGED <<sud_row, rsud>>
              ELSE IF sud_row > 8
              THEN /\ panic' = <<[msg |-> "index out of bounds",
                                 line |-> line_num + 1, text |-> line_uw]>>
                   /\ exit_status' = <<PanicStatus>>
                   /\ pc' = "exit"
                   /\ UNCHANGED <<sud_row, rsud>>
              ELSE /\ rsud' = [rsud EXCEPT ![sud_row] =
                                 [i \in Idx |-> AsI8(digits[i + 1]) - AsI8(CharZero)]]
                   /\ sud_row' = sud_row + 1
                   /\ UNCHANGED <<panic, exit_status, pc>>
    /\ UNCHANGED <<batchVars, runs, sud, lines, solveVars, stderr, printed, result>>

\* Lines 141 and 222: return the grid to sud_solves.
ReadReturn ==
    /\ pc = "read_loop"
    /\ line_num = Len(lines)
    /\ sud' = rsud
    /\ loads' = Append(loads, [idx |-> ip, grid |-> rsud])
    /\ pc' = "solve_start"
    /\ UNCHANGED <<fs, paths, ip, first, last_path, runs, readVars, solveVars,
                   stderr, panic, printed, result, exit_status>>

\* ------------------------------------------------------------------------
\* sud_solves, lines 210-227

\* Line 225 for the entry just solved, then lines 214-223 for the next one;
\* when no path is left main returns and the process ends with status 0.
SolvesNext ==
    /\ pc \in {"solves_loop", "solve_ret"}
    /\ LET lp == IF pc = "solve_ret" THEN paths[ip] ELSE last_path
       IN  /\ last_path' = lp
           /\ IF ip = Len(paths)
              THEN /\ exit_status' = <<0>>
                   /\ pc' = "exit"
                   /\ UNCHANGED <<ip, first>>
              ELSE /\ ip' = ip + 1
                   /\ first' = FALSE
                   /\ pc' = IF paths[ip + 1] # lp THEN "read_open" ELSE "solve_start"
                   /\ UNCHANGED exit_status
    /\ UNCHANGED <<fs, paths, loads, runs, sud, readVars, solveVars, stderr,
                   panic, printed, result>>

\* ------------------------------------------------------------------------
\* Input files

RowLine(g, r) ==
    [i \in 1..9 |-> IF g[r][i - 1] = 0 THEN CharDot ELSE CharZero + g[r][i - 1]]

FileOf(g) == [k \in 1..9 |-> RowLine(g, k - 1)]

Spaced(l) ==
    [i \in 1..(2 * Len(l) - 1) |-> IF i % 2 = 1 THEN l[(i + 1) \div 2] ELSE CharSpace]

Inserted(f, i, x) == SubSeq(f, 1, i) \o <<x>> \o SubSeq(f, i + 1, Len(f))

Deleted(f, i) == SubSeq(f, 1, i - 1) \o SubSeq(f, i + 1, Len(f))

CommentLine == <<CharHash, CharSpace, 120>>

GoodGrid       == Blanked(Sol, {<<0,0>>, <<3,8>>, <<8,8>>})
UnsolvableGrid == [Blanked(Sol, {<<3,8>>, <<4,5>>}) EXCEPT ![3][5] = 3]
InvalidGrid    == [Blanked(Sol, {<<0,0>>}) EXCEPT ![3][5] = 5]

\* The variants of a data line l.
LineVariants(l) ==
    { Spaced(l),                                  \* 5 3 . . 7 ...
      <<CharSpace, CharTab>> \o l \o <<CharTab>>, \* white space around
      SubSeq(l, 1, 4) \o <<CharTab>> \o SubSeq(l, 5, 9),   \* a tab inside
      SubSeq(l, 1, 8),                            \* 8 characters
      l \o <<CharZero + 1>>,                      \* 10 characters
      [l EXCEPT ![9] = 120],                      \* the letter x
      [l EXCEPT ![1] = CharZero] }                \* the digit 0 for a blank

\* The variants of a data line l that do not have 9 characters.
BadLengthVariants(l) ==
    { SubSeq(l, 1, 8),
      l \o <<CharZero + 1>>,
      SubSeq(l, 1, 4) \o <<CharTab>> \o SubSeq(l, 5, 9) }

\* The variants of a data line l that differ from it in white space only.
WhiteSpaceVariants(l) ==
    { Spaced(l),
      <<CharSpace, CharTab>> \o l \o <<CharTab>>,
      <<CharTab>> \o SubSeq(l, 1, 4) \o <<CharSpace, CharSpace>> \o SubSeq(l, 5, 9) }

\* Lines that are not data lines.
SkippedLines ==
    { <<>>, <<CharSpace, CharSpace>>, <<CharTab>>, CommentLine,
      <<CharSpace, CharTab, CharHash, CharZero + 1, CharZero + 2>> }

BaseFile == FileOf(GoodGrid)

\* BaseFile with one line replaced, inserted or deleted, or with one line
\* replaced by a line of a wrong length or with other white space and a
\* skipped line inserted.
FileFamily ==
    {BaseFile}
    \cup UNION {{[BaseFile EXCEPT ![i] = v] : v \in LineVariants(BaseFile[i])} :
                   i \in 1..9}
    \cup {Inserted(BaseFile, i, x) : i \in 0..9, x \in SkippedLines \cup {BaseFile[1]}}
    \cup {Deleted(BaseFile, i) : i \in 1..9}
    \cup UNION {{Inserted([BaseFile EXCEPT ![i] = v], j, x) :
                      v \in BadLengthVariants(BaseFile[i])
                               \cup WhiteSpaceVariants(BaseFile[i])} :
                   i \in 1..9, j \in 0..9, x \in SkippedLines}

\* sud_read called on one file of the family, or on a path without a file.
InitRead ==
    /\ InitCommon
    /\ paths = <<"puzzle.sud">>
    /\ ip = 1
    /\ \/ fs \in {[p \in {"puzzle.sud"} |-> f] : f \in FileFamily}
       \/ fs = NoFiles
    /\ sud = ZeroGrid
    /\ pc = "read_open"

NextRead == ReadOpen \/ ReadLine \/ ReadReturn

SpecRead == InitRead /\ [][NextRead]_vars

\* The files of the batch runs.  "" and "e.sud" do not exist.
BatchFS ==
    [p \in {"a.sud", "b.sud", "c.sud", "d.sud"} |->
        CASE p = "a.sud" -> <<CommentLine, <<>>>> \o [k \in 1..9 |-> Spaced(BaseFile[k])]
          [] p = "b.sud" -> FileOf(UnsolvableGrid)
          [] p = "c.sud" -> FileOf(InvalidGrid)
          [] p = "d.sud" -> [BaseFile EXCEPT ![5] = SubSeq(BaseFile[5], 1, 8)]]

BatchPaths == {"", "a.sud", "b.sud", "c.sud", "d.sud", "e.sud"}

InitBatch ==
    /\ InitCommon
    /\ fs = BatchFS
    /\ paths \in UNION {[1..n -> BatchPaths] : n \in 1..MaxPaths}
    /\ ip = 0
    /\ sud = ZeroGrid
    /\ pc = "solves_loop"

NextBatch ==
    SolvesNext \/ ReadOpen \/ ReadLine \/ ReadReturn
    \/ SolveStart \/ SolveIter \/ SolveReport

SpecBatch == InitBatch /\ [][NextBatch]_vars

\* ------------------------------------------------------------------------
\* sud_cell_is_valid applied to one cell of a grid

CellCheck ==
    /\ pc = "cell_call"
    /\ result' = sud_cell_is_valid(sud, row, col)
    /\ pc' = "cell_done"
    /\ UNCHANGED <<batchVars, runs, sud, readVars, solveVars, stderr, panic,
                   printed, exit_status>>

InitCell ==
    /\ first = TRUE /\ last_path = "" /\ loads = <<>> /\ runs = <<>>
    /\ lines = <<>> /\ line_num = 0 /\ sud_row = 0 /\ rsud = ZeroGrid
    /\ sud_cp = ZeroGrid /\ fixed = sud_get_fixed(ZeroGrid)
    /\ found = FALSE /\ errors = <<>> /\ iters = 0
    /\ stderr = <<>> /\ panic = <<>> /\ printed = <<>> /\ result = FALSE
    /\ exit_status = <<>>
    /\ fs = NoFiles /\ paths = <<>> /\ ip = 0
    /\ sud \in InputGrids
    /\ row \in Idx
    /\ col \in Idx
    /\ pc = "cell_call"

NextCell == CellCheck

SpecCell == InitCell /\ [][NextCell]_vars

\* ------------------------------------------------------------------------
\* sud_is_valid applied to a grid

ValidCheck ==
    /\ pc = "valid_call"
    /\ result' = sud_is_valid(sud)
    /\ pc' = "valid_done"
    /\ UNCHANGED <<batchVars, runs, sud, readVars, solveVars, stderr, panic,
                   printed, exit_status>>

InitValid ==
    /\ InitCommon
    /\ fs = NoFiles /\ paths = <<>> /\ ip = 0
    /\ sud \in InputGrids \cup {ZeroGrid, BlankedRows(Sol, 8)}
    /\ pc = "valid_call"

NextValid == ValidCheck

SpecValid == InitValid /\ [][NextValid]_vars

\* ------------------------------------------------------------------------
\* sud_step called on its own, lines 231-251

\* Masks with exactly one non-fixed cell.
OneFreeMasks == {[r \in Idx |-> [c \in Idx |-> <<r, c>> # q]] : q \in Idx \X Idx}

\* The masks of the input grids, of grids whose first rows are blank (the
\* empty grid among them) and the masks with one non-fixed cell.
StepMasks ==
    {sud_get_fixed(g) : g \in InputGrids}
    \cup {sud_get_fixed(BlankedRows(Sol, k)) : k \in 0..9}
    \cup {sud_get_fixed(BlankedRows(Transposed(Blanked(Sol, BlankCands)), k)) : k \in 0..9}
    \cup OneFreeMasks

StepForward ==
    /\ pc = "step_call"
    /\ result' = sud_step(fixed, row, col, 1)
    /\ pc' = "step_fwd_done"
    /\ UNCHANGED <<batchVars, runs, sud, readVars, solveVars, stderr, panic,
                   printed, exit_status>>

StepBackward ==
    /\ pc = "step_call"
    /\ result' = sud_step(fixed, row, col, -1)
    /\ pc' = "step_bwd_done"
    /\ UNCHANGED <<batchVars, runs, sud, readVars, solveVars, stderr, panic,
                   printed, exit_status>>

InitStep ==
    /\ first = TRUE /\ last_path = ""
    /\ loads = <<>> /\ runs = <<>>
    /\ lines = <<>> /\ line_num = 0 /\ sud_row = 0 /\ rsud = ZeroGrid
    /\ sud = ZeroGrid /\ sud_cp = ZeroGrid
    /\ fixed \in StepMasks
    /\ row \in 0..8 /\ col \in (-1)..8
    /\ found = FALSE /\ errors = <<>> /\ iters = 0
    /\ stderr = <<>> /\ panic = <<>> /\ printed = <<>> /\ result = FALSE
    /\ exit_status = <<>>
    /\ fs = NoFiles /\ paths = <<>> /\ ip = 0
    /\ pc = "step_call"

NextStep == StepForward \/ StepBackward

SpecStep == InitStep /\ [][NextStep]_vars

\* ------------------------------------------------------------------------
\* Reference notions for the properties of sud_solve

Cells == Idx \X Idx

SameUnit(p, q) ==
    /\ p # q
    /\ \/ p[1] = q[1]
       \/ p[2] = q[2]
       \/ (p[1] \div 3 = q[1] \div 3 /\ p[2] \div 3 = q[2] \div 3)

\* Two distinct cells of one row, column or box hold the same non-zero value.
HasDup(g) ==
    \E p \in Cells : \E q \in Cells :
        SameUnit(p, q) /\ g[p[1]][p[2]] # 0 /\ g[p[1]][p[2]] = g[q[1]][q[2]]

BlanksOf(g) == {p \in Cells : g[p[1]][p[2]] = 0}

\* Every grid that fills the cells bl of g with digits 1..9 without a
\* duplicate in any row, column or box.
RECURSIVE Fill(_, _)
Fill(g, bl) ==
    IF bl = {} THEN (IF HasDup(g) THEN {} ELSE {g})
    ELSE LET p == CHOOSE q \in bl : TRUE
             free == {v \in 1..9 : \A q \in Cells :
                         SameUnit(p, q) => g[q[1]][q[2]] # v}
         IN  UNION {Fill([g EXCEPT ![p[1]][p[2]] = v], bl \ {p}) : v \in free}

Completions(g) == Fill(g, BlanksOf(g))

InRange(g) == \A p \in Cells : g[p[1]][p[2]] \in 0..9

FixedKept(g, h) == \A p \in Cells : g[p[1]][p[2]] # 0 => h[p[1]][p[2]] = g[p[1]][p[2]]

Done == {"exit", "solve_ret"}

\* C1: a grid with exactly one valid completion ends solved; the final grid
\* is valid, has no 0 cell, is that completion and keeps every given.
C1_UniqueSolved ==
    (pc \in Done /\ InRange(sud) /\ Cardinality(Completions(sud)) = 1) =>
        /\ found /\ pc = "solve_ret" /\ exit_status = <<>> /\ stderr = <<>>
        /\ sud_is_valid(sud_cp)
        /\ sud_is_solved(sud_cp)
        /\ Completions(sud) = {sud_cp}
        /\ FixedKept(sud, sud_cp)
        /\ printed = <<sud_cp>>

C1_Witness ==
    /\ pc = "solve_ret" /\ iters > 5
    /\ Cardinality(Completions(sud)) = 1

\* C2: with duplicate-free givens the search ends exhausted (found = false,
\* "Could not find a solution") exactly when no valid completion exists,
\* and ends found, past the last cell, whenever a completion exists.
C2_ExhaustedIffNoCompletion ==
    (pc \in Done /\ InRange(sud) /\ ~HasDup(sud)) =>
        /\ (~found /\ stderr = <<MsgNoSolution>> /\ exit_status = <<1>>)
               <=> (Completions(sud) = {})
        /\ (Completions(sud) # {}) =>
               (found /\ row = 9 /\ col = 9 /\ pc = "solve_ret")

C2_Witness ==
    /\ pc = "exit" /\ ~found /\ iters > 0
    /\ ~HasDup(sud) /\ Completions(sud) = {}

\* C3 (as claimed): givens with a duplicate end exhausted at once: no
\* iteration, no cell changed, reported as "Could not find a solution".
C3_InvalidGivensExhausted ==
    (pc \in Done /\ InRange(sud) /\ HasDup(sud)) =>
        /\ iters = 0
        /\ sud_cp = sud
        /\ ~found
        /\ stderr = <<MsgNoSolution>>
        /\ printed = <<sud>>

\* C4: the search loop terminates with the cursor off the grid, in one of
\* the two outcomes found / not found.
C4_Terminates ==
    <>(pc \in Done /\ row = 9 /\ (found \/ stderr = <<MsgNoSolution>>))

C4_Witness == pc \in Done /\ row = 9 /\ iters > 20

\* C5: a valid grid without a 0 cell is solved by the initial forward step
\* (sentinel, zero iterations) and printed unchanged.
C5_FullValidImmediate ==
    (pc # "solve_start" /\ sud_is_solved(sud) /\ ~HasDup(sud)) =>
        /\ iters = 0 /\ row = 9 /\ col = 9 /\ found
        /\ sud_cp = sud
        /\ pc \in Done => (pc = "solve_ret" /\ printed = <<sud>> /\ stderr = <<>>)

C5_Witness ==
    /\ pc = "solve_ret" /\ sud_is_solved(sud) /\ ~HasDup(sud)
    /\ sud # Sol

\* C6: no step changes the caller's grid, and after every step each given
\* cell of the working copy holds its input value.
C6_Frame ==
    [][/\ sud' = sud
       /\ FixedKept(sud, sud_cp')
       /\ \A p \in Cells : sud_cp'[p[1]][p[2]] # sud_cp[p[1]][p[2]]
              => (pc = "solve_start" \/ ~fixed[p[1]][p[2]])]_vars

C6_Witness ==
    /\ pc = "solve_loop" /\ iters > 3 /\ sud_cp # sud
    /\ \E p \in Cells : sud[p[1]][p[2]] # 0

\* ------------------------------------------------------------------------
\* Reference notions for the properties of sud_solves and sud_read

\* sud_read has been called for entry i.
ReadCalled(i) ==
    \/ \E k \in 1..Len(loads) : loads[k].idx = i
    \/ i = ip /\ (pc \in {"read_open", "read_loop"} \/ panic # <<>>)

\* The grid the engine got for entry i is one sud_read returned for its path.
EntryLoaded(i) ==
    \E k \in 1..Len(loads) :
        /\ loads[k].idx <= i
        /\ paths[loads[k].idx] = paths[i]
        /\ \E a \in 1..Len(runs) : runs[a].idx = i /\ runs[a].grid = loads[k].grid

\* The engine printed a complete, valid grid for entry i that keeps its givens.
EntrySolved(i) ==
    /\ i <= Len(printed) /\ i <= Len(runs)
    /\ sud_is_solved(printed[i])
    /\ ~HasDup(printed[i])
    /\ FixedKept(runs[i].grid, printed[i])

\* C7 (as claimed): the first entry is loaded, a later entry is loaded
\* exactly when its path differs from the one before it, and an entry with
\* a repeated path gets the grid of the entry before it.
C7_LoadIffPathDiffers ==
    \A i \in 1..ip :
        /\ ReadCalled(i) <=> (i = 1 \/ paths[i] # paths[i - 1])
        /\ (i > 1 /\ paths[i] = paths[i - 1]) =>
              \A a \in 1..Len(runs) : \A b \in 1..Len(runs) :
                  (runs[a].idx = i - 1 /\ runs[b].idx = i)
                      => runs[b].grid = runs[a].grid

\* C8 (as claimed): entries are processed in order, the engine runs on an
\* entry only after every earlier entry was loaded and solved, a failing
\* entry ends the process with a non-zero status, and the status is 0
\* exactly when every entry was solved.
C8_BatchStopsAtFirstFailure ==
    /\ \A k \in 1..Len(runs) : runs[k].idx = k
    /\ \A k \in 1..Len(runs) : \A j \in 1..(k - 1) :
           EntryLoaded(j) /\ EntrySolved(j)
    /\ pc = "exit" =>
           /\ exit_status = <<0>> <=>
                 (ip = Len(paths) /\ \A i \in 1..Len(paths) : EntrySolved(i))
           /\ exit_status # <<0>> => ~(EntryLoaded(ip) /\ EntrySolved(ip))

\* A line is a data line unless it is blank or its first character that is
\* not white space is '#'.
NonWs(l) == SelectSeq(l, LAMBDA ch : ch \notin WhiteSpace)

IsData(l) == NonWs(l) # <<>> /\ NonWs(l)[1] # CharHash

DataLines(f) == SelectSeq(f, IsData)

IsDigitOrDot(ch) == ch = CharDot \/ (ch >= CharZero /\ ch <= CharZero + 9)

\* C9 (as claimed): when sud_read returns, the file had exactly 9 data
\* lines, each of 9 characters that are digits or '.', and every cell of the
\* returned grid is in 0..9; every other file ends in a panic.
C9_ReadFatalOrGrid ==
    (pc = "solve_start") =>
        /\ InRange(sud)
        /\ sud_row = 9
        /\ Len(DataLines(lines)) = 9
        /\ \A k \in 1..Len(lines) : IsData(lines[k]) =>
               /\ Len(RemoveSpaces(Trim(lines[k]))) = 9
               /\ \A j \in 1..Len(lines[k]) :
                      lines[k][j] \in WhiteSpace \/ IsDigitOrDot(lines[k][j])

\* C10 (as claimed): sud_cell_is_valid is false exactly when another cell of
\* the row, column or box holds the same non-zero value, also for a cell
\* that holds 0.
C10_CellValidNonZero ==
    (pc = "cell_done") =>
        (result = FALSE <=>
            \E q \in Cells :
                /\ SameUnit(<<row, col>>, q)
                /\ sud[q[1]][q[2]] # 0
                /\ sud[q[1]][q[2]] = sud[row][col])

\* C10 (amended): sud_cell_is_valid is false exactly when another cell of
\* the row, column or box holds the same value as the cell, 0 included: for
\* a non-zero cell a duplicate of its value, for a blank cell another blank.
C10_CellValidLiteral ==
    (pc = "cell_done") =>
        (result = FALSE <=>
            \E q \in Cells :
                /\ SameUnit(<<row, col>>, q)
                /\ sud[q[1]][q[2]] = sud[row][col])

C10_Witness ==
    /\ pc = "cell_done" /\ result = FALSE /\ sud[row][col] = 0
    /\ \E q \in Cells : SameUnit(<<row, col>>, q) /\ sud[q[1]][q[2]] = 0

\* C11: sud_is_valid is true exactly when no two distinct cells of one row,
\* column or box hold the same non-zero value, whatever the number of blanks.
C11_GridValidIffNoDup ==
    (pc = "valid_done") => (result = TRUE <=> ~HasDup(sud))

C11_Witness ==
    /\ pc = "valid_done" /\ result = TRUE
    /\ Cardinality(BlanksOf(sud)) >= 18

\* The panic of line 130.
LenPanic == panic # <<>> /\ panic[1].msg = "does not have 9 digts"

\* A data line whose length after trim and replace(" ", "") is not 9.
BadLen(l) == IsData(l) /\ Len(RemoveSpaces(Trim(l))) # 9

\* C12: the length error names the 1-based position, among all lines of
\* the file, of the first data line of a wrong length, quotes that line,
\* and ends the process before sud_read returns a grid.
C12_LengthErrorLineNumber ==
    /\ LenPanic =>
          /\ pc = "exit" /\ exit_status = <<PanicStatus>> /\ loads = <<>>
          /\ panic[1].line \in 1..Len(lines)
          /\ BadLen(lines[panic[1].line])
          /\ \A k \in 1..(panic[1].line - 1) : ~BadLen(lines[k])
          /\ panic[1].text = lines[panic[1].line]
    /\ (pc \in {"exit", "solve_start"}
          /\ \E k \in 1..Len(lines) :
                 BadLen(lines[k]) /\ Len(DataLines(SubSeq(lines, 1, k - 1))) <= 9)
          => LenPanic

C12_Witness ==
    /\ LenPanic
    /\ panic[1].line > sud_row + 1
    /\ sud_row > 0

\* The value the characters of a line stand for: '.' is 0, a digit itself.
CellOf(ch) == IF ch = CharDot THEN 0 ELSE ch - CharZero

\* A white-space character other than a space between the first and the
\* last character of l that is not white space.
HasInnerTab(l) ==
    \E i \in 1..Len(l) :
        /\ l[i] \in WhiteSpace \ {CharSpace}
        /\ \E a \in 1..(i - 1) : l[a] \notin WhiteSpace
        /\ \E b \in (i + 1)..Len(l) : l[b] \notin WhiteSpace

\* The rows filled so far are the data lines read so far with their white
\* space removed; blank and comment lines leave no trace.
RowsAreDataLines ==
    LET dl == DataLines(SubSeq(lines, 1, line_num))
    IN  /\ Len(dl) = sud_row
        /\ \A r \in 0..(sud_row - 1) :
               /\ Len(NonWs(dl[r + 1])) = 9
               /\ \A i \in Idx : rsud[r][i] = CellOf(NonWs(dl[r + 1])[i + 1])
        /\ \A r \in sud_row..8 : rsud[r] = ZeroGrid[r]

\* C13: blank and comment lines are ignored and all white space
\* inside a line, tabs included, is removed before the length check: a data
\* line with 9 characters that are not white space is never a length error.
C13_AllWhitespaceStripped ==
    /\ panic = <<>> => RowsAreDataLines
    /\ LenPanic => Len(NonWs(lines[panic[1].line])) # 9

\* What line 125 does: white space around a line and every space inside it
\* are removed before the length check; a tab inside a line stays and
\* counts, so a data line with 9 characters that are not white space is a
\* length error exactly when it has such a tab.
ReadStripsSpacesOnly ==
    /\ panic = <<>> => RowsAreDataLines
    /\ LenPanic => (Len(NonWs(lines[panic[1].line])) # 9
                       \/ HasInnerTab(lines[panic[1].line]))
    /\ \A k \in 1..line_num :
           (IsData(lines[k]) /\ HasInnerTab(lines[k])) =>
               (LenPanic /\ panic[1].line = k)

\* C14: whenever sud_solve ends with found = true the final grid passes
\* sud_is_valid and sud_is_solved, so "Found an invalid solution" is never
\* reported, whatever the givens.
C14_FoundImpliesConsistent ==
    (pc \in Done /\ InRange(sud) /\ found) =>
        /\ sud_is_valid(sud_cp)
        /\ sud_is_solved(sud_cp)
        /\ errors = <<>>
        /\ MsgInvalid \notin {stderr[i] : i \in 1..Len(stderr)}

\* The same for valid givens only.
FoundImpliesConsistentForValidGivens ==
    (pc \in Done /\ InRange(sud) /\ found /\ ~HasDup(sud)) =>
        /\ sud_is_valid(sud_cp)
        /\ sud_is_solved(sud_cp)
        /\ errors = <<>>
        /\ stderr = <<>>

\* Row-major order of two cells.
Before(p, q) == p[1] < q[1] \/ (p[1] = q[1] /\ p[2] < q[2])

\* C15: at the start of every iteration of the search loop, the non-fixed
\* cells before the cursor in row-major order hold a value in 1..9, those
\* after the cursor hold 0 and the cursor cell holds a value in 0..9.
C15_LoopInvariant ==
    (pc = "solve_loop" /\ row # 9) =>
        /\ sud_cp[row][col] \in 0..9
        /\ \A p \in Cells : ~fixed[p[1]][p[2]] =>
               /\ Before(p, <<row, col>>) => sud_cp[p[1]][p[2]] \in 1..9
               /\ Before(<<row, col>>, p) => sud_cp[p[1]][p[2]] = 0

C15_Witness ==
    /\ pc = "solve_loop" /\ row # 9 /\ iters > 3
    /\ sud_cp[row][col] > 0
    /\ \E p \in Cells : ~fixed[p[1]][p[2]] /\ Before(p, <<row, col>>)
    /\ \E p \in Cells : ~fixed[p[1]][p[2]] /\ Before(<<row, col>>, p)

\* The non-fixed cells of a mask.
Free(fx) == {q \in Cells : ~fx[q[1]][q[2]]}

\* The first non-fixed cell strictly after p in row-major order, the last
\* one strictly before p, or the sentinel.
FirstAfter(fx, p) ==
    LET S == {q \in Free(fx) : Before(p, q)}
    IN  IF S = {} THEN <<9, 9>>
        ELSE CHOOSE q \in S : \A q2 \in S : q2 = q \/ Before(q, q2)

LastBefore(fx, p) ==
    LET S == {q \in Free(fx) : Before(q, p)}
    IN  IF S = {} THEN <<9, 9>>
        ELSE CHOOSE q \in S : \A q2 \in S : q2 = q \/ Before(q2, q)

OnFreeCell == row \in Idx /\ col \in Idx /\ ~fixed[row][col]

\* C17 (as claimed): in every state of sud_solve from the initial step on,
\* the cursor is on a non-fixed cell of the grid or is the sentinel (9, 9).
C17_CursorFreeOrSentinel ==
    (pc \in {"solve_loop"} \cup Done /\ InRange(sud)) =>
        (OnFreeCell \/ (row = 9 /\ col = 9))

\* C17 (amended): in every state of sud_solve from the initial step on,
\* the cursor is on a non-fixed cell of the grid or its row is 9; with row 9
\* the column is 9 as well, except for givens with a duplicate, where line
\* 157 sets the row alone and the column stays that of the first non-fixed
\* cell.
C17_CursorFreeOrRowNine ==
    (pc \in {"solve_loop"} \cup Done /\ InRange(sud)) =>
        \/ OnFreeCell
        \/ row = 9 /\ col = 9
        \/ /\ row = 9 /\ HasDup(sud) /\ iters = 0
           /\ col = FirstAfter(fixed, <<0, -1>>)[2]

C17_Witness ==
    /\ pc \in Done /\ row = 9 /\ col # 9
    /\ HasDup(sud) /\ Free(fixed) # {}

\* C18: when the search loop ends by stepping backward off the start, every
\* non-fixed cell of the working copy is 0 again: the working copy equals
\* the input grid, which is the grid the failure path prints.
C18_ExhaustedRestoresInput ==
    (pc \in {"solve_loop"} \cup Done /\ row = 9 /\ ~found) =>
        /\ \A p \in Free(fixed) : sud_cp[p[1]][p[2]] = 0
        /\ sud_cp = sud
        /\ pc \in Done => (pc = "exit" /\ printed = <<sud>>)

C18_Witness ==
    /\ pc = "exit" /\ row = 9 /\ ~found
    /\ iters > 10 /\ Cardinality(Free(fixed)) >= 2

\* g comes before h when the cells are read in row-major order.
LexLess(g, h) ==
    \E p \in Cells :
        /\ g[p[1]][p[2]] < h[p[1]][p[2]]
        /\ \A q \in Cells : Before(q, p) => g[q[1]][q[2]] = h[q[1]][q[2]]

\* C19: for valid givens with one or more completions, the grid sud_solve
\* prints is the completion that is smallest when the non-fixed cells are
\* read in row-major order; it is determined by the input grid.
C19_SmallestCompletion ==
    (pc \in Done /\ InRange(sud) /\ ~HasDup(sud) /\ Completions(sud) # {}) =>
        /\ printed = <<sud_cp>>
        /\ sud_cp \in Completions(sud)
        /\ \A h \in Completions(sud) : h = sud_cp \/ LexLess(sud_cp, h)

C19_Witness ==
    /\ pc = "solve_ret" /\ ~HasDup(sud)
    /\ Cardinality(Completions(sud)) >= 2
    /\ printed = <<sud_cp>>

\* The working grid with the cursor cell set to 0.
CursorCleared == [sud_cp EXCEPT ![row][col] = 0]

\* C20: for valid givens, at the start of every iteration of the search
\* loop the working grid with the cursor cell set to 0 is valid: the fixed
\* cells and the values placed before the cursor have no duplicate in any
\* row, column or box; only the cursor cell may hold a conflicting value.
C20_PlacedValuesValid ==
    (pc = "solve_loop" /\ row # 9 /\ InRange(sud) /\ ~HasDup(sud)) =>
        /\ sud_is_valid(CursorCleared)
        /\ ~HasDup(CursorCleared)
        /\ \A p \in Cells : \A q \in Cells :
               (/\ SameUnit(p, q)
                /\ sud_cp[p[1]][p[2]] # 0
                /\ sud_cp[p[1]][p[2]] = sud_cp[q[1]][q[2]])
               => (p = <<row, col>> \/ q = <<row, col>>)

C20_Witness ==
    /\ pc = "solve_loop" /\ row # 9 /\ ~HasDup(sud)
    /\ sud_cp[row][col] # 0
    /\ ~sud_cell_is_valid(sud_cp, row, col)
    /\ \E p \in Free(fixed) : Before(p, <<row, col>>)

====
